---------------------------- MODULE Spec2Model ----------------------------
(***************************************************************************)
(* A model of the request handlers of the video-sharing backend: the like  *)
(* toggles (src/src/controllers/like.controller.js), the tweet, comment    *)
(* and playlist mutations, the channel statistics, the comment listing and *)
(* the login / logout handlers.                                            *)
(*                                                                         *)
(* The document store is a set of documents per collection.  A handler is  *)
(* one action, except the like toggles, whose read (findOne) and write     *)
(* (findByIdAndDelete / create) are two awaits of the handler and are two  *)
(* steps, so that requests interleave as they do on the event loop.        *)
(*                                                                         *)
(* Conventions: an entity id is a positive integer (a well-formed          *)
(* ObjectId); 0 is a malformed id in a request and an absent reference in  *)
(* a document.  A user reference is a string; NoUser is an absent one.  An *)
(* optional document is a set with no or one element.                      *)
(***************************************************************************)
EXTENDS Integers, Sequences, FiniteSets, TLC

VARIABLES
    mongooseMajor,  \* the major version of the mongoose the build resolves
    likes,          \* collection "likes"
    tweets,         \* collection "tweets"
    comments,       \* collection "comments"
    playlists,      \* collection "playlists"
    videos,         \* collection "videos"
    subscriptions,  \* collection "subscriptions"
    users,          \* collection "users"
    cookies,        \* the cookies the client holds: name -> value
    nextId,         \* the ids generated so far, per collection
    reqs,           \* like-toggle requests between their read and their write
    last,           \* the request completed last and its response
    prev            \* the like toggle completed before it

vars == <<mongooseMajor, likes, tweets, comments, playlists, videos,
          subscriptions, users, cookies, nextId, reqs, last, prev>>

-----------------------------------------------------------------------------
(* Bounds of the model. *)

\* like-toggle requests that may be in flight at once
MaxInflight == 2
\* like-toggle requests received in one behaviour
MaxToggles == 4
\* tweets, comments and playlists created in one behaviour, all together
MaxCreated == 1
\* videos and subscriptions the store may hold when statistics are asked for
MaxVideos == 3
MaxSubscriptions == 3
\* comments a video may hold when its comments are listed
MaxComments == 15

Users == {"u1", "u2"}
NoUser == "nobody"

\* mongoose 6 strips unknown paths from a filter (strictQuery follows strict);
\* mongoose 7 and later leave them in (strictQuery false) and make
\* mongoose.Types.ObjectId a class that must be called with new.
MongooseVersions == {6, 7}
StrictQuery == mongooseMajor = 6
ObjectIdNeedsNew == mongooseMajor >= 7

AnyId(id) == TRUE

isValidObjectId(id) == id >= 1

-----------------------------------------------------------------------------
(* The response envelope and the record of a completed request. *)

NoData == [none |-> TRUE]

Completed(op, caller, args, status, err, data, before) ==
    [op |-> op, caller |-> caller, args |-> args, status |-> status,
     err |-> err, data |-> data, before |-> before]

NoRequest == Completed("none", NoUser, NoData, 0, "none", NoData, {})

\* new ApiResponse(200, data): the success envelope
ApiResponse(op, caller, args, status, data, before) ==
    Completed(op, caller, args, status, "none", data, before)

\* throw new ApiError(status, message): the failure envelope
ApiError(op, caller, args, status, err, before) ==
    Completed(op, caller, args, status, err, NoData, before)

-----------------------------------------------------------------------------
(* The Like collection. *)

\* the paths of the Like schema
LikePaths == {"video", "comment", "tweet", "likedBy"}

\* Model.create under the schema's strict mode: paths the schema does not
\* declare are dropped, paths not given are absent
LikeDoc(id, fields) ==
    [_id     |-> id,
     video   |-> IF "video" \in DOMAIN fields THEN fields.video ELSE 0,
     comment |-> IF "comment" \in DOMAIN fields THEN fields.comment ELSE 0,
     tweet   |-> IF "tweet" \in DOMAIN fields THEN fields.tweet ELSE 0,
     likedBy |-> IF "likedBy" \in DOMAIN fields THEN fields.likedBy ELSE NoUser]

\* the value a Like document holds at a path of the schema
LikeField(doc, path) ==
    CASE path = "video"   -> doc.video
      [] path = "comment" -> doc.comment
      [] path = "tweet"   -> doc.tweet
      [] path = "likedBy" -> doc.likedBy

\* whether a Like document matches a filter: under strictQuery a path the
\* schema does not declare is stripped from the filter, otherwise it is sent
\* to the store, where no document holds it
LikeMatches(doc, filter) ==
    \A path \in DOMAIN filter :
        IF path \in LikePaths
        THEN LikeField(doc, path) = filter[path]
        ELSE StrictQuery

\* Like.findOne(filter): no document, or one of those that match
LikeFindOne(filter) == {l \in likes : LikeMatches(l, filter)}


\* an optional document out of those that match: findOne yields the first the
\* store meets, and no order is asked for
Optional(S) == IF S = {} THEN {{}} ELSE {{x} : x \in S}

-----------------------------------------------------------------------------
(* The like toggles.  A request is idle, or has done its findOne and is     *)
(* about to delete or create.                                               *)

Slots == 1..MaxInflight

IdleReq ==
    [pc |-> "idle", op |-> "none", user |-> NoUser, target |-> 0,
     likedAlready |-> {}, before |-> {}, isolated |-> FALSE]

FreeSlot == CHOOSE s \in Slots : reqs[s].pc = "idle" /\
                \A t \in Slots : reqs[t].pc = "idle" => s <= t

\* a request that begins or ends while another is in flight ran beside it
Disturbed == [s \in Slots |-> [reqs[s] EXCEPT !.isolated = FALSE]]

LikeFrame == <<mongooseMajor, tweets, comments, playlists, videos,
               subscriptions, users, cookies>>

\* validateObjectId, then the existence query of a toggle
ToggleFind(op, u, id, filter) ==
    /\ \E s \in Slots : reqs[s].pc = "idle"
    /\ nextId.toggles < MaxToggles
    /\ nextId' = [nextId EXCEPT !.toggles = @ + 1]
    /\ IF ~isValidObjectId(id)
       THEN /\ last' = ApiError(op, u, [target |-> id, isolated |-> FALSE],
                                400, "InvalidId", likes)
            /\ prev' = last
            /\ reqs' = Disturbed
       ELSE /\ \E found \in Optional(LikeFindOne(filter)) :
                   reqs' = [Disturbed EXCEPT ![FreeSlot] =
                              [pc |-> "found", op |-> op, user |-> u,
                               target |-> id, likedAlready |-> found,
                               before |-> likes,
                               isolated |-> \A t \in Slots : reqs[t].pc = "idle"]]
            /\ UNCHANGED <<last, prev>>
    /\ UNCHANGED likes
    /\ UNCHANGED LikeFrame

\* the write of a toggle: findByIdAndDelete of the like found, or create
ToggleWrite(op, s, fields, unliked, liked) ==
    /\ reqs[s].pc = "found"
    /\ reqs[s].op = op
    /\ IF reqs[s].likedAlready # {}
       THEN /\ likes' = {l \in likes :
                           \A f \in reqs[s].likedAlready : l._id # f._id}
            /\ nextId' = nextId
            /\ last' = ApiResponse(op, reqs[s].user,
                          [target |-> reqs[s].target,
                           isolated |-> reqs[s].isolated],
                          200, unliked, reqs[s].before)
       ELSE /\ nextId' = [nextId EXCEPT !.likes = @ + 1]
            /\ likes' = likes \cup {LikeDoc(nextId.likes + 1, fields)}
            /\ last' = ApiResponse(op, reqs[s].user,
                          [target |-> reqs[s].target,
                           isolated |-> reqs[s].isolated],
                          200, liked, reqs[s].before)
    /\ prev' = last
    /\ reqs' = [Disturbed EXCEPT ![s] = IdleReq]
    /\ UNCHANGED LikeFrame

toggleVideoLikeFind(u, videoId) ==
    ToggleFind("toggleVideoLike", u, videoId,
               [video |-> videoId, likedBy |-> u])

toggleVideoLike(s) ==
    ToggleWrite("toggleVideoLike", s,
                [video |-> reqs[s].target, likedBy |-> reqs[s].user],
                [isLiked |-> FALSE], [isLiked |-> TRUE])

toggleCommentLikeFind(u, commentId) ==
    ToggleFind("toggleCommentLike", u, commentId,
               [comment |-> commentId, commentedBy |-> u])

toggleCommentLike(s) ==
    ToggleWrite("toggleCommentLike", s,
                [comment |-> reqs[s].target, commentedBy |-> reqs[s].user],
                [isCommented |-> FALSE], [isCommented |-> TRUE])

toggleTweetLikeFind(u, tweetId) ==
    ToggleFind("toggleTweetLike", u, tweetId,
               [tweet |-> tweetId, tweetedBy |-> u])

toggleTweetLike(s) ==
    ToggleWrite("toggleTweetLike", s,
                [tweet |-> reqs[s].target, tweetedBy |-> reqs[s].user],
                [tweetId |-> reqs[s].target, isTweeted |-> FALSE],
                [isTweeted |-> TRUE])

-----------------------------------------------------------------------------
(* The specification of the like toggles. *)

NoIds == [likes |-> 0, tweets |-> 0, comments |-> 0, playlists |-> 0,
          users |-> 0, toggles |-> 0]

InitLikes ==
    /\ mongooseMajor \in MongooseVersions
    /\ likes = {}
    /\ tweets = {}
    /\ comments = {}
    /\ playlists = {}
    /\ videos = {}
    /\ subscriptions = {}
    /\ users = {}
    /\ cookies = {}
    /\ nextId = NoIds
    /\ reqs = [s \in Slots |-> IdleReq]
    /\ last = NoRequest
    /\ prev = NoRequest

\* the ids a request may name: a malformed one and a well-formed one
TargetIds == {0, 1}

NextLikes ==
    \/ \E u \in Users, id \in TargetIds : toggleVideoLikeFind(u, id)
    \/ \E s \in Slots : toggleVideoLike(s)
    \/ \E u \in Users, id \in TargetIds : toggleCommentLikeFind(u, id)
    \/ \E s \in Slots : toggleCommentLike(s)
    \/ \E u \in Users, id \in TargetIds : toggleTweetLikeFind(u, id)
    \/ \E s \in Slots : toggleTweetLike(s)

SpecLikes == InitLikes /\ [][NextLikes]_vars

-----------------------------------------------------------------------------
(* The videos and subscriptions of the store.  No handler under src/       *)
(* creates or deletes them: a specification starts with some of these.     *)

\* video i: the owners alternate; video 2 is not published
Video(i) ==
    [_id |-> i, owner |-> IF i % 2 = 1 THEN "u1" ELSE "u2",
     views |-> (i + 1) % 3, isPublished |-> i # 2]

\* subscription i: user u2 subscribes to u1 (twice: i = 1, 3), u1 to u2
Subscription(i) ==
    [_id |-> i, channel |-> IF i % 2 = 1 THEN "u1" ELSE "u2",
     subscriber |-> IF i % 2 = 1 THEN "u2" ELSE "u1"]

\* the users of the store, as registerUser stores them: the password is
\* the bcrypt hash of the one sent, no refresh token is held
BcryptHash(password) == <<"bcrypt", password>>

SeedUser(u) ==
    [_id |-> u,
     userName |-> IF u = "u1" THEN "alice" ELSE "bob",
     email |-> IF u = "u1" THEN "alice@x" ELSE "bob@x",
     fullName |-> IF u = "u1" THEN "Alice A" ELSE "Bob B",
     password |-> BcryptHash(IF u = "u1" THEN "pw1" ELSE "pw2"),
     refreshToken |-> ""]

SeedUsers == {SeedUser(u) : u \in Users}

SelectEverything(doc, excluded) == doc

\* .select("-password -refreshToken"): the document without these paths
Select(doc, excluded) ==
    [path \in (DOMAIN doc) \ excluded |-> doc[path]]

-----------------------------------------------------------------------------
(* The ownership guard of the update and delete handlers: the document     *)
(* looked up must exist, and its owner must be the caller.                 *)

FindById(coll, id) == {d \in coll : d._id = id}

OwnershipGuardUnchecked(found, u) ==
    IF \E d \in found : d.owner = u THEN "ok" ELSE "NotOwner"

OwnershipGuardOpen(found, u) ==
    IF found = {} THEN "NotFound" ELSE "ok"

\* if (!doc) throw 404; if (doc.owner.toString() !== req.user._id.toString())
\* throw: the outcome of the two checks, in the order the handlers make them
OwnershipGuard(found, u) ==
    IF found = {} THEN "NotFound"
    ELSE IF \E d \in found : d.owner # u THEN "NotOwner"
    ELSE "ok"

\* what the caller may send as content, name and description: nothing, or text
Contents == {"", "a", "b"}
Names == {"", "n", "m"}
Descriptions == {"", "d"}

\* the ids a request may name: 0 is malformed, the others are well-formed
EntityIds == 0..MaxCreated

Created == nextId.tweets + nextId.comments + nextId.playlists

-----------------------------------------------------------------------------
(* Tweets: src/src/controllers/tweet.controller.js *)

TweetFrame == <<mongooseMajor, likes, comments, playlists, videos,
                subscriptions, users, cookies, reqs, prev>>

TweetCreateUnowned(u, content) ==
    [_id |-> nextId.tweets + 1, owner |-> NoUser, content |-> content]

\* Tweet.create({content, owner: req.user?._id})
TweetCreate(u, content) ==
    [_id |-> nextId.tweets + 1, owner |-> u, content |-> content]

ContentNeverMissing(content) == FALSE

\* if (!content): nothing was sent, or the empty string
ContentMissing(content) == content = ""

createTweet(u, content) ==
    LET args == [content |-> content] IN
    /\ IF ContentMissing(content)
       THEN /\ last' = ApiError("createTweet", u, args, 400,
                                "ContentRequired", tweets)
            /\ UNCHANGED <<tweets, nextId>>
       ELSE /\ Created < MaxCreated
            /\ tweets' = tweets \cup {TweetCreate(u, content)}
            /\ nextId' = [nextId EXCEPT !.tweets = @ + 1]
            /\ last' = ApiResponse("createTweet", u, args, 200,
                                   TweetCreate(u, content), tweets)
    /\ UNCHANGED TweetFrame

updateTweet(u, tweetId, content) ==
    LET args == [id |-> tweetId, content |-> content]
        tweet == FindById(tweets, tweetId)
        guard == OwnershipGuard(tweet, u)
        newTweet == {[t EXCEPT !.content = content] : t \in tweet}
        Fail(status, err) ==
            /\ last' = ApiError("updateTweet", u, args, status, err, tweets)
            /\ UNCHANGED tweets
    IN
    /\ IF ContentMissing(content) THEN Fail(400, "ContentRequired")
       ELSE IF ~isValidObjectId(tweetId) THEN Fail(400, "InvalidId")
       ELSE IF guard = "NotFound" THEN Fail(404, "NotFound")
       ELSE IF guard = "NotOwner" THEN Fail(400, "NotOwner")
       ELSE /\ tweets' = (tweets \ tweet) \cup newTweet
            /\ last' = ApiResponse("updateTweet", u, args, 200,
                                   CHOOSE t \in newTweet : TRUE, tweets)
    /\ UNCHANGED nextId
    /\ UNCHANGED TweetFrame

deleteTweetCascading(u, tweetId) ==
    LET args == [id |-> tweetId]
        tweet == FindById(tweets, tweetId)
        guard == OwnershipGuard(tweet, u)
    IN
    /\ IF ~isValidObjectId(tweetId) \/ guard # "ok"
       THEN /\ last' = ApiError("deleteTweet", u, args, 400, "Rejected", tweets)
            /\ UNCHANGED <<tweets, likes>>
       ELSE /\ tweets' = tweets \ tweet
            /\ likes' = {l \in likes : l.tweet # tweetId}
            /\ last' = ApiResponse("deleteTweet", u, args, 200,
                                   [tweetId |-> tweetId], tweets)
    /\ UNCHANGED <<mongooseMajor, comments, playlists, videos, subscriptions,
                   users, cookies, reqs, prev, nextId>>

deleteTweet(u, tweetId) ==
    LET args == [id |-> tweetId]
        tweet == FindById(tweets, tweetId)
        guard == OwnershipGuard(tweet, u)
        Fail(status, err) ==
            /\ last' = ApiError("deleteTweet", u, args, status, err, tweets)
            /\ UNCHANGED tweets
    IN
    /\ IF ~isValidObjectId(tweetId) THEN Fail(400, "InvalidId")
       ELSE IF guard = "NotFound" THEN Fail(404, "NotFound")
       ELSE IF guard = "NotOwner" THEN Fail(400, "NotOwner")
       ELSE /\ tweets' = tweets \ tweet
            /\ last' = ApiResponse("deleteTweet", u, args, 200,
                                   [tweetId |-> tweetId], tweets)
    /\ UNCHANGED nextId
    /\ UNCHANGED TweetFrame

-----------------------------------------------------------------------------
(* Comments: src/unnamed/part_001 *)

\* the paths of the Comment schema
CommentPaths == {"content", "video", "owner"}

CommentField(doc, path) ==
    CASE path = "content" -> doc.content
      [] path = "video"   -> doc.video
      [] path = "owner"   -> doc.owner

\* whether a Comment document matches a filter (see LikeMatches)
CommentMatches(doc, filter) ==
    \A path \in DOMAIN filter :
        IF path \in CommentPaths
        THEN CommentField(doc, path) = filter[path]
        ELSE StrictQuery

\* the ids of videos a request may name: 0 is malformed, 3 names no video
VideoIds == {0, 1, 2, 3}

CommentFrame == <<mongooseMajor, likes, tweets, playlists, videos,
                  subscriptions, users, cookies, reqs, prev>>

addComment(u, videoId, content) ==
    LET args == [video |-> videoId, content |-> content]
        comment == [_id |-> nextId.comments + 1, owner |-> u,
                    video |-> videoId, content |-> content,
                    createdAt |-> nextId.comments + 1]
        Fail(status, err) ==
            /\ last' = ApiError("addComment", u, args, status, err, comments)
            /\ UNCHANGED <<comments, nextId>>
    IN
    /\ IF content = "" THEN Fail(400, "ContentRequired")
       ELSE IF ~isValidObjectId(videoId) THEN Fail(500, "CastError")
       ELSE IF FindById(videos, videoId) = {} THEN Fail(404, "NotFound")
       ELSE /\ Created < MaxCreated
            /\ comments' = comments \cup {comment}
            /\ nextId' = [nextId EXCEPT !.comments = @ + 1]
            /\ last' = ApiResponse("addComment", u, args, 201, comment,
                                   comments)
    /\ UNCHANGED CommentFrame

updateComment(u, commentId, content) ==
    LET args == [id |-> commentId, content |-> content]
        comment == FindById(comments, commentId)
        guard == OwnershipGuard(comment, u)
        updatedComment == {[c EXCEPT !.content = content] : c \in comment}
        Fail(status, err) ==
            /\ last' = ApiError("updateComment", u, args, status, err,
                                comments)
            /\ UNCHANGED comments
    IN
    /\ IF content = "" THEN Fail(400, "ContentRequired")
       ELSE IF ~isValidObjectId(commentId) THEN Fail(500, "CastError")
       ELSE IF guard = "NotFound" THEN Fail(404, "NotFound")
       ELSE IF guard = "NotOwner" THEN Fail(403, "NotOwner")
       ELSE /\ comments' = (comments \ comment) \cup updatedComment
            /\ last' = ApiResponse("updateComment", u, args, 200,
                                   CHOOSE c \in updatedComment : TRUE,
                                   comments)
    /\ UNCHANGED nextId
    /\ UNCHANGED CommentFrame

deleteComment(u, commentId) ==
    LET args == [id |-> commentId]
        comment == FindById(comments, commentId)
        guard == OwnershipGuard(comment, u)
        \* Comment.findByIdAndDelete(commentId)
        kept == comments \ comment
        \* Comment.deleteMany({comment: commentId, likedBy: req.user._id})
        related == {c \in kept :
                      CommentMatches(c, [comment |-> commentId,
                                         likedBy |-> u])}
        Fail(status, err) ==
            /\ last' = ApiError("deleteComment", u, args, status, err,
                                comments)
            /\ UNCHANGED comments
    IN
    /\ IF ~isValidObjectId(commentId) THEN Fail(500, "CastError")
       ELSE IF guard = "NotFound" THEN Fail(404, "NotFound")
       ELSE IF guard = "NotOwner" THEN Fail(403, "NotOwner")
       ELSE /\ comments' = kept \ related
            /\ last' = ApiResponse("deleteComment", u, args, 200,
                                   [commentId |-> commentId], comments)
    /\ UNCHANGED nextId
    /\ UNCHANGED CommentFrame

-----------------------------------------------------------------------------
(* Playlists: src/src/controllers/playlist.controller.js *)

InSeq(x, list) == \E i \in 1..Len(list) : list[i] = x

Push(list, x) == Append(list, x)

\* $addToSet: the value is appended unless the array holds it
AddToSet(list, x) == IF InSeq(x, list) THEN list ELSE Append(list, x)

PullAll(list, x) == <<>>

\* $pull: every occurrence of the value is removed
Pull(list, x) ==
    LET Keep(y) == y # x IN SelectSeq(list, Keep)

PlaylistFrame == <<mongooseMajor, likes, tweets, comments, videos,
                   subscriptions, users, cookies, reqs, prev>>

createPlaylist(u, name, description) ==
    LET args == [name |-> name, description |-> description]
        playlist == [_id |-> nextId.playlists + 1, owner |-> u,
                     name |-> name, description |-> description,
                     videos |-> <<>>]
    IN
    /\ IF name = "" \/ description = ""
       THEN /\ last' = ApiError("createPlaylist", u, args, 400,
                                "NameAndDescriptionRequired", playlists)
            /\ UNCHANGED <<playlists, nextId>>
       ELSE /\ Created < MaxCreated
            /\ playlists' = playlists \cup {playlist}
            /\ nextId' = [nextId EXCEPT !.playlists = @ + 1]
            /\ last' = ApiResponse("createPlaylist", u, args, 200, playlist,
                                   playlists)
    /\ UNCHANGED PlaylistFrame

updatePlaylist(u, playlistId, name, description) ==
    LET args == [id |-> playlistId, name |-> name,
                 description |-> description]
        playlist == FindById(playlists, playlistId)
        guard == OwnershipGuard(playlist, u)
        updatedPlaylist ==
            {[q EXCEPT !.name = name, !.description = description] :
                q \in playlist}
        Fail(status, err) ==
            /\ last' = ApiError("updatePlaylist", u, args, status, err,
                                playlists)
            /\ UNCHANGED playlists
    IN
    /\ IF name = "" \/ description = ""
       THEN Fail(400, "NameAndDescriptionRequired")
       ELSE IF ~isValidObjectId(playlistId) THEN Fail(400, "InvalidId")
       ELSE IF guard = "NotFound" THEN Fail(404, "NotFound")
       ELSE IF guard = "NotOwner" THEN Fail(400, "NotOwner")
       ELSE /\ playlists' = (playlists \ playlist) \cup updatedPlaylist
            /\ last' = ApiResponse("updatePlaylist", u, args, 200,
                                   CHOOSE q \in updatedPlaylist : TRUE,
                                   playlists)
    /\ UNCHANGED nextId
    /\ UNCHANGED PlaylistFrame

deletePlaylist(u, playlistId) ==
    LET args == [id |-> playlistId]
        playlist == FindById(playlists, playlistId)
        guard == OwnershipGuard(playlist, u)
        Fail(status, err) ==
            /\ last' = ApiError("deletePlaylist", u, args, status, err,
                                playlists)
            /\ UNCHANGED playlists
    IN
    /\ IF ~isValidObjectId(playlistId) THEN Fail(400, "InvalidId")
       ELSE IF guard = "NotFound" THEN Fail(404, "NotFound")
       ELSE IF guard = "NotOwner" THEN Fail(400, "NotOwner")
       ELSE /\ playlists' = playlists \ playlist
            /\ last' = ApiResponse("deletePlaylist", u, args, 200, NoData,
                                   playlists)
    /\ UNCHANGED nextId
    /\ UNCHANGED PlaylistFrame

\* the checks addVideoToPlaylist and removeVideoFromPlaylist share, and the
\* update each makes to the videos array of the playlist
ChangePlaylistVideos(op, u, playlistId, videoId, Update(_, _)) ==
    LET args == [id |-> playlistId, video |-> videoId]
        playlist == FindById(playlists, playlistId)
        video == FindById(videos, videoId)
        updatedPlaylist ==
            {[q EXCEPT !.videos = Update(q.videos, videoId)] : q \in playlist}
        Fail(status, err) ==
            /\ last' = ApiError(op, u, args, status, err, playlists)
            /\ UNCHANGED playlists
    IN
    /\ IF ~isValidObjectId(playlistId) \/ ~isValidObjectId(videoId)
       THEN Fail(400, "InvalidId")
       ELSE IF playlist = {} THEN Fail(404, "NotFound")
       ELSE IF video = {} THEN Fail(404, "VideoNotFound")
       ELSE IF OwnershipGuard(playlist, u) = "NotOwner"
       THEN Fail(400, "NotOwner")
       ELSE /\ playlists' = (playlists \ playlist) \cup updatedPlaylist
            /\ last' = ApiResponse(op, u, args, 200,
                                   CHOOSE q \in updatedPlaylist : TRUE,
                                   playlists)
    /\ UNCHANGED nextId
    /\ UNCHANGED PlaylistFrame

addVideoToPlaylist(u, playlistId, videoId) ==
    ChangePlaylistVideos("addVideoToPlaylist", u, playlistId, videoId,
                         AddToSet)

removeVideoFromPlaylist(u, playlistId, videoId) ==
    ChangePlaylistVideos("removeVideoFromPlaylist", u, playlistId, videoId,
                         Pull)

-----------------------------------------------------------------------------
(* The specification of the tweet, comment and playlist mutations. *)

\* the videos of the store: the handlers of src/ create and delete none
SeedVideos == {Video(1), Video(2)}

InitOwner ==
    /\ mongooseMajor \in MongooseVersions
    /\ likes = {}
    /\ tweets = {}
    /\ comments = {}
    /\ playlists = {}
    /\ videos = SeedVideos
    /\ subscriptions = {}
    /\ users = {}
    /\ cookies = {}
    /\ nextId = NoIds
    /\ reqs = [s \in Slots |-> IdleReq]
    /\ last = NoRequest
    /\ prev = NoRequest

NextOwner ==
    \/ \E u \in Users, c \in Contents : createTweet(u, c)
    \/ \E u \in Users, id \in EntityIds, c \in Contents : updateTweet(u, id, c)
    \/ \E u \in Users, id \in EntityIds : deleteTweet(u, id)
    \/ \E u \in Users, v \in VideoIds, c \in Contents : addComment(u, v, c)
    \/ \E u \in Users, id \in EntityIds, c \in Contents :
          updateComment(u, id, c)
    \/ \E u \in Users, id \in EntityIds : deleteComment(u, id)
    \/ \E u \in Users, n \in Names, d \in Descriptions :
          createPlaylist(u, n, d)
    \/ \E u \in Users, id \in EntityIds, n \in Names, d \in Descriptions :
          updatePlaylist(u, id, n, d)
    \/ \E u \in Users, id \in EntityIds : deletePlaylist(u, id)
    \/ \E u \in Users, id \in EntityIds, v \in VideoIds :
          addVideoToPlaylist(u, id, v)
    \/ \E u \in Users, id \in EntityIds, v \in VideoIds :
          removeVideoFromPlaylist(u, id, v)

SpecOwner == InitOwner /\ [][NextOwner]_vars

-----------------------------------------------------------------------------
(* Channel statistics: src/src/controllers/dashbord.controller.js *)

RECURSIVE Sum(_, _)
\* $sum of the values f gives the documents of S
Sum(f, S) ==
    IF S = {} THEN 0
    ELSE LET d == CHOOSE x \in S : TRUE IN f[d] + Sum(f, S \ {d})

\* without the default an absent result is undefined, here -1
OrUndefined(S) == IF S = {} THEN -1 ELSE CHOOSE x \in S : TRUE

\* result[0]?.field || 0, S holding the field of result[0] if there is one
OrZero(S) == IF S = {} THEN 0 ELSE CHOOSE x \in S : TRUE

getTotalSubscribersOfAll(userId) == Cardinality(subscriptions)

\* $match {channel: userId}, $group {_id: null, subscribersCount: {$sum: 1}}:
\* a group stage over no document yields no document
getTotalSubscribers(userId) ==
    LET matched == {c \in subscriptions : c.channel = userId}
        result == IF matched = {} THEN {}
                  ELSE {[subscribersCount |-> Cardinality(matched)]}
    IN  OrZero({g.subscribersCount : g \in result})

\* $match {owner: userId}, $lookup likes on video, $project, $group
getVideoStats(userId) ==
    LET owned == {v \in videos : v.owner = userId}
        projected ==
            [v \in owned |->
                [totalLikes |-> Cardinality({l \in likes : l.video = v._id}),
                 totalViews |-> v.views]]
        result == IF owned = {} THEN {}
                  ELSE {[totalLikes  |-> Sum([v \in owned |->
                                               projected[v].totalLikes], owned),
                         totalViews  |-> Sum([v \in owned |->
                                               projected[v].totalViews], owned),
                         totalVideos |-> Sum([v \in owned |-> 1], owned)]}
    IN  [totalLikes  |-> OrZero({g.totalLikes : g \in result}),
         totalViews  |-> OrZero({g.totalViews : g \in result}),
         totalVideos |-> OrZero({g.totalVideos : g \in result})]

StatsFrame == <<mongooseMajor, likes, tweets, comments, playlists, videos,
                subscriptions, users, cookies, nextId, reqs, prev>>

\* getUserId throws 401 when the request carries no user
getChannelStats(u) ==
    /\ IF u = NoUser
       THEN last' = ApiError("getChannelStats", u, NoData, 401,
                             "NotAuthenticated", {})
       ELSE LET videoStats == getVideoStats(u) IN
            last' = ApiResponse("getChannelStats", u, NoData, 200,
                       [totalSubscribers |-> getTotalSubscribers(u),
                        totalLikes  |-> videoStats.totalLikes,
                        totalViews  |-> videoStats.totalViews,
                        totalVideos |-> videoStats.totalVideos], {})
    /\ UNCHANGED StatsFrame

\* the likes the store may hold when statistics are asked for: on videos by
\* users (the second pair twice, as after a race), on a video that is not
\* stored, and on a comment and a tweet (stored without a user)
SeedLikes ==
    {LikeDoc(1, [video |-> 1, likedBy |-> "u2"]),
     LikeDoc(2, [video |-> 2, likedBy |-> "u1"]),
     LikeDoc(3, [video |-> 2, likedBy |-> "u1"]),
     LikeDoc(4, [video |-> 3, likedBy |-> "u1"]),
     LikeDoc(5, [comment |-> 1]),
     LikeDoc(6, [tweet |-> 1])}

InitStats ==
    /\ mongooseMajor \in MongooseVersions
    /\ likes \in SUBSET SeedLikes
    /\ tweets = {}
    /\ comments = {}
    /\ playlists = {}
    /\ videos \in SUBSET {Video(i) : i \in 1..MaxVideos}
    /\ subscriptions \in SUBSET {Subscription(i) : i \in 1..MaxSubscriptions}
    /\ users = {}
    /\ cookies = {}
    /\ nextId = NoIds
    /\ reqs = [s \in Slots |-> IdleReq]
    /\ last = NoRequest
    /\ prev = NoRequest

NextStats == \E u \in Users \cup {NoUser} : getChannelStats(u)

SpecStats == InitStats /\ [][NextStats]_vars

-----------------------------------------------------------------------------
(* The comment listing: getVideoComments of src/unnamed/part_001 *)

\* a query parameter is absent or a string of decimal digits, most
\* significant first
RECURSIVE parseInt(_)
parseInt(str) ==
    IF Len(str) = 0 THEN 0
    ELSE 10 * parseInt(SubSeq(str, 1, Len(str) - 1)) + str[Len(str)]

\* const { page = 1, limit = 10 } = req.query, then parseInt(value, 10)
QueryNumber(param, default) ==
    IF param = {} THEN default ELSE parseInt(CHOOSE str \in param : TRUE)

RECURSIVE SortNewestFirst(_)
\* $sort {createdAt: -1}
SortNewestFirst(S) ==
    IF S = {} THEN <<>>
    ELSE LET newest == CHOOSE c \in S : \A d \in S : d.createdAt <= c.createdAt
         IN  <<newest>> \o SortNewestFirst(S \ {newest})

Min(a, b) == IF a <= b THEN a ELSE b

\* Comment.aggregatePaginate(aggregate, {page, limit}): the documents after
\* skipping (page - 1) * limit, at most limit of them, and the total count
aggregatePaginate(sorted, page, limit) ==
    [docs |-> SubSeq(sorted, (page - 1) * limit + 1,
                     Min(Len(sorted), page * limit)),
     totalDocs |-> Len(sorted), page |-> page, limit |-> limit]

\* $lookup users, $lookup likes, $addFields, $project of one comment.  The
\* projection of the owner keeps username, fullName and avatar.url, of which
\* a user document holds fullName
CommentView(c, u) ==
    LET owner == {w \in users : w._id = c.owner}
        liked == {l \in likes : l.comment = c._id}
    IN  [_id |-> c._id, content |-> c.content, createdAt |-> c.createdAt,
         likesCount |-> Cardinality(liked),
         owner |-> {[fullName |-> w.fullName] : w \in owner},
         isLiked |-> \E l \in liked : l.likedBy # NoUser /\ l.likedBy = u]

ListFrame == <<mongooseMajor, likes, tweets, comments, playlists, videos,
               subscriptions, users, cookies, nextId, reqs, prev>>

getVideoComments(u, videoId, page, limit) ==
    LET args == [video |-> videoId, page |-> page, limit |-> limit]
        video == FindById(videos, videoId)
        matched == {c \in comments : c.video = videoId}
        views == {CommentView(c, u) : c \in matched}
        options == [page |-> QueryNumber(page, 1),
                    limit |-> QueryNumber(limit, 10)]
    IN
    /\ last' =
          IF ~isValidObjectId(videoId)
          THEN ApiError("getVideoComments", u, args, 500, "CastError",
                        comments)
          ELSE IF video = {}
          THEN ApiError("getVideoComments", u, args, 404, "NotFound",
                        comments)
          \* mongoose.Types.ObjectId(videoId), called without new
          ELSE IF ObjectIdNeedsNew
          THEN ApiError("getVideoComments", u, args, 500, "TypeError",
                        comments)
          ELSE ApiResponse("getVideoComments", u, args, 200,
                           aggregatePaginate(SortNewestFirst(views),
                                             options.page, options.limit),
                           comments)
    /\ UNCHANGED ListFrame

\* comment i of a video, as addComment stores it: created at time i
SeedComment(i, videoId) ==
    [_id |-> i, owner |-> IF i % 2 = 1 THEN "u1" ELSE "u2",
     video |-> videoId, content |-> "a", createdAt |-> i]

\* the page and limit a request may carry: none, or 1, 2, 3, 10
QueryNumbers == {{}, {<<1>>}, {<<2>>}, {<<3>>}, {<<1, 0>>}}

InitList ==
    /\ mongooseMajor \in MongooseVersions
    /\ likes \in {{}, {LikeDoc(1, [comment |-> 1]),
                         LikeDoc(2, [comment |-> 2])}}
    /\ tweets = {}
    /\ \E n \in 0..MaxComments :
          comments = {SeedComment(i, 1) : i \in 1..n}
                        \cup {SeedComment(n + 1, 2)}
    /\ playlists = {}
    /\ videos = SeedVideos
    /\ subscriptions = {}
    /\ users = SeedUsers
    /\ cookies = {}
    /\ nextId = NoIds
    /\ reqs = [s \in Slots |-> IdleReq]
    /\ last = NoRequest
    /\ prev = NoRequest

NextList ==
    \E u \in Users \cup {NoUser}, v \in VideoIds,
       page \in QueryNumbers, limit \in QueryNumbers :
        getVideoComments(u, v, page, limit)

SpecList == InitList /\ [][NextList]_vars

-----------------------------------------------------------------------------
(* Login and logout: src/unnamed/part_000, src/src/models/user.model.js *)

\* bcrypt.compare(password, hash)
BcryptCompare(password, hash) == hash = BcryptHash(password)

\* what a function returns that ends without a return statement: undefined,
\* the optional value that is absent
Undefined == {}

Truthy(value) == value = {TRUE}

\* userSchema.methods.isPasswordCorrect: the comparison is awaited and its
\* result is not returned
isPasswordCorrect(user, password) ==
    LET compared == BcryptCompare(password, user.password) IN Undefined

\* the methods the schema registers: generateAccessToken and
\* generateRefreshToken are assigned to userSchema.method, not .methods
SchemaMethods == {"isPasswordCorrect"}

\* generateAccessToken / generateRefreshToken: jwt.sign is called and its
\* result is not returned
generateToken(user, kind) ==
    LET signed == <<"jwt", kind, user._id>> IN Undefined

\* the value a cookie or a field takes from an optional token
TokenText(token) ==
    IF token = {} THEN "undefined" ELSE "jwt"

AuthFrame == <<mongooseMajor, likes, tweets, comments, playlists, videos,
               subscriptions, nextId, reqs, prev>>

loginUser(email, userName, password) ==
    LET args == [email |-> email, userName |-> userName,
                 password |-> password]
        Fail(status, err) ==
            /\ last' = ApiError("loginUser", NoUser, args, status, err, users)
            /\ UNCHANGED <<users, cookies>>
    IN
    /\ IF userName = "" \/ email = ""
       THEN Fail(400, "UserNameOrEmailRequired")
       ELSE LET matching == {w \in users :
                               w.userName = userName \/ w.email = email}
            IN
            IF matching = {} THEN Fail(404, "NotFound")
            ELSE \E user \in matching :
                   IF ~Truthy(isPasswordCorrect(user, password))
                   THEN Fail(401, "InvalidCredentials")
                   ELSE IF ~({"generateAccessToken", "generateRefreshToken"}
                                \subseteq SchemaMethods)
                   THEN Fail(500, "TokenError")
                   ELSE LET accessToken == generateToken(user, "access")
                            refreshToken == generateToken(user, "refresh")
                            saved == [user EXCEPT !.refreshToken =
                                         TokenText(refreshToken)]
                        IN  /\ users' = (users \ {user}) \cup {saved}
                            /\ cookies' =
                                  {[name |-> "accessToken",
                                    value |-> TokenText(accessToken)],
                                   [name |-> "refreshToken",
                                    value |-> TokenText(refreshToken)]}
                            /\ last' = ApiResponse("loginUser", NoUser, args,
                                          200,
                                          [user |-> Select(saved,
                                              {"password", "refreshToken"}),
                                           accessToken |-> accessToken,
                                           refreshToken |-> refreshToken],
                                          users)
    /\ UNCHANGED AuthFrame

\* findByIdAndUpdate(req.user._id, {$set: {refreshToken: undefined}}):
\* mongoose 6 and later strip a key whose value is undefined from an update,
\* so the stored token stays; then both cookies are cleared
logoutUser(u) ==
    /\ \E w \in users : w._id = u
    /\ users' = users
    /\ cookies' = {c \in cookies :
                      c.name \notin {"accessToken", "refreshToken"}}
    /\ last' = ApiResponse("logoutUser", u, NoData, 200,
                           [message |-> "User logged Out"], users)
    /\ UNCHANGED AuthFrame

\* what a login request may carry as its identifiers and its password
UserNames == {"", "alice", "bob", "carol"}
Emails == {"", "alice@x", "bob@x"}
Passwords == {"", "pw1", "pw2"}

InitAuth ==
    /\ mongooseMajor \in MongooseVersions
    /\ likes = {}
    /\ tweets = {}
    /\ comments = {}
    /\ playlists = {}
    /\ videos = {}
    /\ subscriptions = {}
    /\ users \in SUBSET SeedUsers
    /\ cookies = {}
    /\ nextId = NoIds
    /\ reqs = [s \in Slots |-> IdleReq]
    /\ last = NoRequest
    /\ prev = NoRequest

NextAuth ==
    \/ \E e \in Emails, n \in UserNames, pw \in Passwords :
          loginUser(e, n, pw)
    \/ \E u \in Users : logoutUser(u)

SpecAuth == InitAuth /\ [][NextAuth]_vars

-----------------------------------------------------------------------------
(* Registration: src/unnamed/part_000, src/src/models/user.model.js.  The  *)
(* file holds two registerUser handlers; both are modelled.                 *)

MaxRegistrations == 3

\* the users that hold the userName or the email: $or: [{userName}, {email}]
UserFindOne(S, userName, email) ==
    {w \in S : w.userName = userName \/ w.email = email}

NoUniqueIndex(S, doc) == FALSE

\* unique: true on userName and on email: the store refuses a document
\* whose userName or email another document holds (E11000)
DuplicateKey(S, doc) ==
    \E w \in S : w.userName = doc.userName \/ w.email = doc.email

\* [fullName, email, password, userName].some(field => field?.trim() === "")
SomeFieldEmpty(args) ==
    \E f \in {"fullName", "email", "password", "userName"} : args[f] = ""

RegisterFrame == <<mongooseMajor, likes, tweets, comments, playlists, videos,
                   subscriptions, cookies, prev>>

\* registerUser up to the awaited User.findOne
registerUserFind(userName, email, fullName, password, avatar) ==
    LET args == [userName |-> userName, email |-> email,
                 fullName |-> fullName, password |-> password,
                 avatar |-> avatar, existed |-> FALSE]
    IN
    /\ \E s \in Slots : reqs[s].pc = "idle"
    /\ nextId.users < MaxRegistrations
    /\ nextId' = [nextId EXCEPT !.users = @ + 1]
    /\ IF SomeFieldEmpty(args)
       THEN /\ last' = ApiError("registerUser", NoUser, args, 400,
                                "AllFieldsRequired", users)
            /\ reqs' = reqs
       ELSE /\ \E existedUser \in
                     Optional(UserFindOne(users, userName, email)) :
                   reqs' = [reqs EXCEPT ![FreeSlot] =
                              [pc |-> "lookedUp", op |-> "registerUser",
                               args |-> [args EXCEPT !.existed =
                                                 existedUser # {}]]]
            /\ last' = last
    /\ UNCHANGED users
    /\ UNCHANGED RegisterFrame

\* registerUser after User.findOne: 409 when a user was found, the avatar
\* check and upload, User.create, then the created user is read back
\* without its password and its refresh token
registerUser(s) ==
    LET args == reqs[s].args
        unused == {u \in Users : \A w \in users : w._id # u}
        free == IF unused = {} THEN NoUser ELSE CHOOSE u \in unused : TRUE
        doc  == [_id |-> free, userName |-> args.userName,
                 email |-> args.email, fullName |-> args.fullName,
                 password |-> BcryptHash(args.password),
                 refreshToken |-> ""]
    IN
    /\ reqs[s].pc = "lookedUp"
    /\ reqs[s].op = "registerUser"
    /\ IF args.existed
       THEN /\ last' = ApiError("registerUser", NoUser, args, 409,
                                "UserExists", users)
            /\ users' = users
       ELSE IF ~args.avatar
       THEN /\ last' = ApiError("registerUser", NoUser, args, 400,
                                "AvatarRequired", users)
            /\ users' = users
       ELSE IF DuplicateKey(users, doc)
       THEN /\ last' = ApiError("registerUser", NoUser, args, 500,
                                "DuplicateKey", users)
            /\ users' = users
       ELSE /\ users' = users \cup {doc}
            /\ last' = ApiResponse("registerUser", NoUser, args, 201,
                          Select(doc, {"password", "refreshToken"}), users)
    /\ reqs' = [reqs EXCEPT ![s] = IdleReq]
    /\ nextId' = nextId
    /\ UNCHANGED RegisterFrame

\* the second registerUser of the file: User.findOne is not awaited, so
\* existedUser is the query object, which is truthy
registerUserUnawaited(userName, email, fullName, password, avatar) ==
    LET args == [userName |-> userName, email |-> email,
                 fullName |-> fullName, password |-> password,
                 avatar |-> avatar, existed |-> TRUE]
    IN
    /\ nextId.users < MaxRegistrations
    /\ nextId' = [nextId EXCEPT !.users = @ + 1]
    /\ IF SomeFieldEmpty(args)
       THEN last' = ApiError("registerUser", NoUser, args, 400,
                             "AllFieldsRequired", users)
       ELSE last' = ApiError("registerUser", NoUser, args, 409,
                             "UserExists", users)
    /\ UNCHANGED <<users, reqs>>
    /\ UNCHANGED RegisterFrame

\* what a registration request may carry
RegisterNames == {"alice", "bob"}
RegisterEmails == {"alice@x", "bob@x"}
FullNames == {"", "Alice A"}
RegisterPasswords == {"pw1"}

InitRegister ==
    /\ mongooseMajor \in MongooseVersions
    /\ likes = {}
    /\ tweets = {}
    /\ comments = {}
    /\ playlists = {}
    /\ videos = {}
    /\ subscriptions = {}
    /\ users = {}
    /\ cookies = {}
    /\ nextId = NoIds
    /\ reqs = [s \in Slots |-> IdleReq]
    /\ last = NoRequest
    /\ prev = NoRequest

NextRegister ==
    \/ \E n \in RegisterNames, e \in RegisterEmails, f \in FullNames,
          pw \in RegisterPasswords, avatar \in BOOLEAN :
          registerUserFind(n, e, f, pw, avatar)
    \/ \E s \in Slots : registerUser(s)
    \/ \E n \in RegisterNames, e \in RegisterEmails, f \in FullNames,
          pw \in RegisterPasswords, avatar \in BOOLEAN :
          registerUserUnawaited(n, e, f, pw, avatar)
    \/ \E e \in Emails, n \in UserNames, pw \in Passwords :
          loginUser(e, n, pw)
    \/ \E u \in Users : logoutUser(u)

SpecRegister == InitRegister /\ [][NextRegister]_vars

-----------------------------------------------------------------------------
(* Reading tweets and comments with their likes:                            *)
(* src/src/controllers/tweet.controller.js, src/unnamed/part_001            *)

\* a user id as a request parameter: a string that is no ObjectId, or one
MalformedUserId == "not-an-id"

isValidUserId(id) == id # MalformedUserId

\* $in: [req.user?._id, "$likeDetails.likedBy"]: an absent caller is sent
\* as null, and the likes that hold no likedBy contribute no element
InLikedBy(u, liked) ==
    \E l \in liked : l.likedBy # NoUser /\ l.likedBy = u

\* $lookup users (username, avatar.url), $lookup likes (likedBy), $addFields
\* and $project of one tweet.  A user document holds neither username nor
\* avatar.url, so the owner details keep the _id alone
TweetView(t, u) ==
    LET owner == {w \in users : w._id = t.owner}
        likeDetails == {l \in likes : l.tweet = t._id}
    IN  [_id |-> t._id, content |-> t.content, createdAt |-> t._id,
         ownerDetails |-> {[_id |-> w._id] : w \in owner},
         likesCount |-> Cardinality(likeDetails),
         isLiked |-> InLikedBy(u, likeDetails)]

getUserTweets(u, userId) ==
    LET args == [userId |-> userId]
        matched == {t \in tweets : t.owner = userId}
    IN
    /\ last' =
          IF ~isValidUserId(userId)
          THEN ApiError("getUserTweets", u, args, 400, "InvalidId", tweets)
          ELSE ApiResponse("getUserTweets", u, args, 200,
                  [docs |-> SortNewestFirst({TweetView(t, u) : t \in matched})],
                  tweets)
    /\ UNCHANGED ListFrame

\* stored tweets, comments and likes: tweet i and comment i belong to user i
SeedTweets ==
    {[_id |-> 1, owner |-> "u1", content |-> "a"],
     [_id |-> 2, owner |-> "u2", content |-> "b"]}

SeedReadLikes ==
    {LikeDoc(1, [tweet |-> 1, likedBy |-> "u1"]),
     LikeDoc(2, [comment |-> 1, likedBy |-> "u1"]),
     LikeDoc(3, [comment |-> 1, likedBy |-> "u2"])}

\* the toggles this specification follows: one and the next
ReadToggles == 2

InitRead ==
    /\ mongooseMajor \in MongooseVersions
    /\ likes \in {{}, SeedReadLikes}
    /\ tweets = SeedTweets
    /\ comments = {SeedComment(1, 1), SeedComment(2, 1)}
    /\ playlists = {}
    /\ videos = SeedVideos
    /\ subscriptions = {}
    /\ users = SeedUsers
    /\ cookies = {}
    /\ nextId = [NoIds EXCEPT !.likes = Cardinality(SeedReadLikes),
                             !.toggles = MaxToggles - ReadToggles]
    /\ reqs = [s \in Slots |-> IdleReq]
    /\ last = NoRequest
    /\ prev = NoRequest

\* the targets the requests of this specification name
ReadTargets == {1}
ReadVideoIds == {0, 1}
UserIdParams == {"u1", MalformedUserId}

NextRead ==
    \/ \E u \in Users, id \in ReadTargets : toggleCommentLikeFind(u, id)
    \/ \E s \in Slots : toggleCommentLike(s)
    \/ \E u \in Users, id \in ReadTargets : toggleTweetLikeFind(u, id)
    \/ \E s \in Slots : toggleTweetLike(s)
    \/ \E u \in Users \cup {NoUser}, userId \in UserIdParams :
          getUserTweets(u, userId)
    \/ \E u \in Users \cup {NoUser}, v \in ReadVideoIds :
          getVideoComments(u, v, {}, {})

SpecRead == InitRead /\ [][NextRead]_vars

-----------------------------------------------------------------------------
(* The tweet handlers over stored tweets that are liked. *)

\* tweets stored before, with ids the handlers of this run do not generate
StoredTweets ==
    {[_id |-> 11, owner |-> "u1", content |-> "a"],
     [_id |-> 12, owner |-> "u2", content |-> "b"]}

\* likes on the stored tweets and on a video
StoredLikes ==
    {LikeDoc(1, [tweet |-> 11, likedBy |-> "u2"]),
     LikeDoc(2, [tweet |-> 12, likedBy |-> "u1"]),
     LikeDoc(3, [tweet |-> 11, likedBy |-> "u1"]),
     LikeDoc(4, [video |-> 1, likedBy |-> "u1"])}

\* the ids a request may name: malformed, generated here, stored, unknown
TweetIds == {0, 1, 11, 12, 13}

InitTweets ==
    /\ mongooseMajor \in MongooseVersions
    /\ likes = StoredLikes
    /\ tweets = StoredTweets
    /\ comments = {}
    /\ playlists = {}
    /\ videos = SeedVideos
    /\ subscriptions = {}
    /\ users = SeedUsers
    /\ cookies = {}
    /\ nextId = [NoIds EXCEPT !.likes = Cardinality(StoredLikes)]
    /\ reqs = [s \in Slots |-> IdleReq]
    /\ last = NoRequest
    /\ prev = NoRequest

NextTweets ==
    \/ \E u \in Users, c \in Contents : createTweet(u, c)
    \/ \E u \in Users, id \in TweetIds, c \in Contents : updateTweet(u, id, c)
    \/ \E u \in Users, id \in TweetIds : deleteTweet(u, id)

SpecTweets == InitTweets /\ [][NextTweets]_vars

-----------------------------------------------------------------------------
(* Reading a playlist: getPlaylistById of playlist.controller.js *)

\* $lookup from videos on the ids of the playlist: the stored videos among
\* its members
LookupVideos(q) == {v \in videos : InSeq(v._id, q.videos)}

\* $match {"videos.isPublished": true} on the joined array: the playlist
\* passes when some element of the array is published; the array is kept
\* as it is
MatchesPublished(joined) == \E v \in joined : v.isPublished

\* $lookup owner, $addFields totalVideos, totalViews, owner, and $project
PlaylistView(q) ==
    LET joined == LookupVideos(q)
        owner == {w \in users : w._id = q.owner}
    IN  [_id |-> q._id, name |-> q.name, description |-> q.description,
         totalVideos |-> Cardinality(joined),
         totalViews |-> Sum([v \in joined |-> v.views], joined),
         videos |-> {[_id |-> v._id, views |-> v.views] : v \in joined},
         owner |-> {[fullName |-> w.fullName] : w \in owner}]

\* the response carries playlistVideos[0]: the playlist, or nothing
getPlaylistById(u, playlistId) ==
    LET args == [id |-> playlistId]
        playlistVideos ==
            {PlaylistView(q) : q \in
                {m \in FindById(playlists, playlistId) :
                    MatchesPublished(LookupVideos(m))}}
    IN
    /\ last' =
          IF ~isValidObjectId(playlistId)
          THEN ApiError("getPlaylistById", u, args, 400, "InvalidId",
                        playlists)
          ELSE IF playlistVideos = {}
          THEN ApiResponse("getPlaylistById", u, args, 200, NoData, playlists)
          ELSE ApiResponse("getPlaylistById", u, args, 200,
                           CHOOSE q \in playlistVideos : TRUE, playlists)
    /\ UNCHANGED <<playlists, nextId>>
    /\ UNCHANGED PlaylistFrame

\* the stored videos: video 2 is not published
PlaylistVideos == {Video(1), Video(2), Video(3)}

InitPlaylists ==
    /\ mongooseMajor \in MongooseVersions
    /\ likes = {}
    /\ tweets = {}
    /\ comments = {}
    /\ playlists = {}
    /\ videos = PlaylistVideos
    /\ subscriptions = {}
    /\ users = SeedUsers
    /\ cookies = {}
    /\ nextId = NoIds
    /\ reqs = [s \in Slots |-> IdleReq]
    /\ last = NoRequest
    /\ prev = NoRequest

NextPlaylists ==
    \/ \E u \in Users, n \in Names, d \in Descriptions :
          createPlaylist(u, n, d)
    \/ \E u \in Users, id \in EntityIds, v \in VideoIds :
          addVideoToPlaylist(u, id, v)
    \/ \E u \in Users, id \in EntityIds, v \in VideoIds :
          removeVideoFromPlaylist(u, id, v)
    \/ \E u \in Users \cup {NoUser}, id \in EntityIds :
          getPlaylistById(u, id)

SpecPlaylists == InitPlaylists /\ [][NextPlaylists]_vars

-----------------------------------------------------------------------------
(* The comment handlers over stored comments that are liked. *)

\* comments stored before on video 1, with ids the handlers of this run do
\* not generate
StoredComments ==
    {[_id |-> 11, owner |-> "u1", video |-> 1, content |-> "a",
      createdAt |-> 11],
     [_id |-> 12, owner |-> "u2", video |-> 1, content |-> "b",
      createdAt |-> 12]}

\* likes on the stored comments and on a video
StoredCommentLikes ==
    {LikeDoc(1, [comment |-> 11, likedBy |-> "u1"]),
     LikeDoc(2, [comment |-> 11, likedBy |-> "u2"]),
     LikeDoc(3, [comment |-> 12, likedBy |-> "u1"]),
     LikeDoc(4, [video |-> 1, likedBy |-> "u1"])}

\* the ids a request may name: malformed, generated here, stored, unknown
CommentIds == {0, 1, 11, 12, 13}

InitComments ==
    /\ mongooseMajor \in MongooseVersions
    /\ likes = StoredCommentLikes
    /\ tweets = {}
    /\ comments = StoredComments
    /\ playlists = {}
    /\ videos = SeedVideos
    /\ subscriptions = {}
    /\ users = SeedUsers
    /\ cookies = {}
    /\ nextId = [NoIds EXCEPT !.likes = Cardinality(StoredCommentLikes)]
    /\ reqs = [s \in Slots |-> IdleReq]
    /\ last = NoRequest
    /\ prev = NoRequest

NextComments ==
    \/ \E u \in Users, v \in VideoIds, c \in Contents : addComment(u, v, c)
    \/ \E u \in Users, id \in CommentIds, c \in Contents :
          updateComment(u, id, c)
    \/ \E u \in Users, id \in CommentIds : deleteComment(u, id)

SpecComments == InitComments /\ [][NextComments]_vars

-----------------------------------------------------------------------------
(* What the claims about the like toggles speak of. *)

ToggleOps == {"toggleVideoLike", "toggleCommentLike", "toggleTweetLike"}

\* the path of the Like schema that holds a toggle's target
TargetPath(op) ==
    CASE op = "toggleVideoLike"   -> "video"
      [] op = "toggleCommentLike" -> "comment"
      [] op = "toggleTweetLike"   -> "tweet"

\* the Like documents of store S on a target, and those of them by user u
LikesOn(S, op, id) == {l \in S : LikeField(l, TargetPath(op)) = id}
LikesOf(S, op, id, u) == {l \in LikesOn(S, op, id) : l.likedBy = u}

\* the flag a toggle reports: isLiked, isCommented or isTweeted
Flag(r) ==
    CASE r.op = "toggleVideoLike"   -> r.data.isLiked
      [] r.op = "toggleCommentLike" -> r.data.isCommented
      [] r.op = "toggleTweetLike"   -> r.data.isTweeted

\* a toggle that answered, with no other request between its read and write
ToggledAlone(r) == r.op \in ToggleOps /\ r.status = 200 /\ r.args.isolated

\* C2: in every reachable state the store holds at most one Like document
\* per (user, target) pair, whatever the interleaving of the toggles.
C2_AtMostOneLikePerPair ==
    \A u \in Users, op \in ToggleOps, id \in TargetIds :
        isValidObjectId(id) => Cardinality(LikesOf(likes, op, id, u)) <= 1

\* C3: two toggles by one user on one target, run one after the other with
\* no request in between, leave the likes of the target as they were before
\* the first: the same count, and the pair liked or not as it was.
C3_ToggleTwiceRestores ==
    ( /\ ToggledAlone(prev)
      /\ ToggledAlone(last)
      /\ prev.op = last.op
      /\ prev.caller = last.caller
      /\ prev.args.target = last.args.target )
    => /\ Cardinality(LikesOn(likes, last.op, last.args.target))
            = Cardinality(LikesOn(prev.before, last.op, last.args.target))
       /\ (LikesOf(likes, last.op, last.args.target, last.caller) # {})
            <=> (LikesOf(prev.before, last.op, last.args.target,
                         last.caller) # {})

\* C4: a toggle run alone flips the pair: a Like of (U, T) that exists is
\* deleted and false is reported; if none exists exactly one is created and
\* true is reported; the flag says whether a Like of (U, T) exists afterwards.
C4_ToggleFlips ==
    ToggledAlone(last) =>
        LET was == LikesOf(last.before, last.op, last.args.target,
                           last.caller)
            now == LikesOf(likes, last.op, last.args.target, last.caller)
        IN  /\ was # {} => (now = {} /\ Flag(last) = FALSE)
            /\ was = {} => (Cardinality(now) = 1 /\ Flag(last) = TRUE)
            /\ Flag(last) <=> (now # {})

-----------------------------------------------------------------------------
(* What the claims about the tweet, comment and playlist mutations speak of *)

UpdateOps == {"updateTweet", "updateComment", "updatePlaylist"}
DeleteOps == {"deleteTweet", "deleteComment", "deletePlaylist"}
GuardedOps == UpdateOps \cup DeleteOps

\* the collection a guarded request works on, as it is now
StoreOf(op) ==
    CASE op \in {"updateTweet", "deleteTweet"}       -> tweets
      [] op \in {"updateComment", "deleteComment"}   -> comments
      [] op \in {"updatePlaylist", "deletePlaylist"} -> playlists

\* the document a guarded request named, as it was when the request came
Named(r) == FindById(r.before, r.args.id)

\* the request carries what its handler validates before any lookup
ValidInput(r) ==
    CASE r.op \in {"updateTweet", "updateComment"} -> r.args.content # ""
      [] r.op = "updatePlaylist" ->
            r.args.name # "" /\ r.args.description # ""
      [] OTHER -> TRUE

\* the error of a caller who is not the owner: 400 or 403, with its message
Forbidden(r) == r.err = "NotOwner" /\ r.status \in {400, 403}

\* C1 (as stated): an update or delete of an existing tweet, comment or
\* playlist by a caller who is not its owner fails with Forbidden and leaves
\* the stored document as it was.
C1_NonOwnerForbidden ==
    last.op \in GuardedOps =>
        \A d \in Named(last) :
            d.owner # last.caller =>
                Forbidden(last) /\ d \in StoreOf(last.op)

\* C1 (amended): the same for every delete and for every update that carries
\* non-empty input; an update with empty input fails with 400 before the
\* lookup, and leaves the stored document as it was too.
C1_NonOwnerRejected ==
    last.op \in GuardedOps =>
        \A d \in Named(last) :
            d.owner # last.caller =>
                /\ d \in StoreOf(last.op)
                /\ StoreOf(last.op) = last.before
                /\ IF ValidInput(last)
                   THEN Forbidden(last)
                   ELSE last.status = 400 /\ last.err \in
                           {"ContentRequired", "NameAndDescriptionRequired"}

\* a caller who is not the owner asked to change what the document holds
C1_Witness ==
    /\ last.op = "updateComment"
    /\ Forbidden(last)
    /\ \E d \in Named(last) :
          d.owner # last.caller /\ d.content # last.args.content

\* C5: the videos of a playlist hold no id twice, and after the owner's
\* addVideoToPlaylist, however often repeated, hold the id exactly once.
C5_AddVideoOnce ==
    /\ \A q \in playlists :
          \A i, j \in 1..Len(q.videos) :
              q.videos[i] = q.videos[j] => i = j
    /\ (last.op = "addVideoToPlaylist" /\ last.status = 200) =>
          \A q \in FindById(playlists, last.args.id) :
              Cardinality({i \in 1..Len(q.videos) :
                              q.videos[i] = last.args.video}) = 1

\* the owner adds a video the playlist holds already, beside another one
C5_Witness ==
    /\ last.op = "addVideoToPlaylist"
    /\ last.status = 200
    /\ \E q \in Named(last) :
          InSeq(last.args.video, q.videos) /\ Len(q.videos) = 2

\* C8: createTweet with non-empty content by caller U stores exactly one new
\* tweet and answers with it: its owner is U, its content the one sent.
C8_CreateTweetOwned ==
    (last.op = "createTweet" /\ last.args.content # "") =>
        /\ last.status = 200
        /\ last.data.owner = last.caller
        /\ last.data.content = last.args.content
        /\ last.data \notin last.before
        /\ tweets = last.before \cup {last.data}

\* user u2 creates a tweet with content "b"
C8_Witness ==
    /\ last.op = "createTweet"
    /\ last.status = 200
    /\ last.caller = "u2"
    /\ last.args.content = "b"
    /\ last.data \in tweets

\* C9 (as stated): an update or delete that names a document that does not
\* exist fails with 404 NotFound, for every caller, and changes nothing.
C9_MissingIsNotFound ==
    (last.op \in GuardedOps /\ Named(last) = {}) =>
        /\ last.status = 404
        /\ last.err = "NotFound"
        /\ StoreOf(last.op) = last.before

\* C9 (amended): such a request never fails with the ownership error and
\* changes nothing; it fails with 404 NotFound when it passes the checks made
\* before the lookup (non-empty input, a well-formed id).
C9_MissingNeverForbidden ==
    (last.op \in GuardedOps /\ Named(last) = {}) =>
        /\ last.err # "NotOwner"
        /\ last.status # 200
        /\ StoreOf(last.op) = last.before
        /\ (ValidInput(last) /\ isValidObjectId(last.args.id)) =>
              (last.status = 404 /\ last.err = "NotFound")

\* a caller who did not own it names a tweet that was deleted before, and is
\* answered NotFound
C9_Witness ==
    /\ last.op = "updateTweet"
    /\ last.err = "NotFound"
    /\ last.args.id = 1
    /\ nextId.tweets = 1
    /\ tweets = {}

-----------------------------------------------------------------------------
(* What the claim about the statistics of an empty channel speaks of. *)

\* the caller's channel has no subscription, and the caller owns no video
EmptyChannel(u) ==
    /\ \A c \in subscriptions : c.channel # u
    /\ \A v \in videos : v.owner # u

\* C6 (as stated): for an authenticated caller with no subscribers and no
\* videos getChannelStats succeeds with the data {subscriberCount: 0,
\* totalLikes: 0, totalViews: 0, totalVideoCount: 0}.
C6_EmptyChannelZeros ==
    (last.op = "getChannelStats" /\ last.caller \in Users
        /\ EmptyChannel(last.caller)) =>
        /\ last.status = 200
        /\ DOMAIN last.data = {"subscriberCount", "totalLikes", "totalViews",
                               "totalVideoCount"}
        /\ \A k \in DOMAIN last.data : last.data[k] = 0

\* C6 (amended): the same with the four statistics under the names the
\* handler gives them: totalSubscribers, totalLikes, totalViews, totalVideos.
C6_EmptyChannelTotalsZero ==
    (last.op = "getChannelStats" /\ last.caller \in Users
        /\ EmptyChannel(last.caller)) =>
        /\ last.status = 200
        /\ last.err = "none"
        /\ last.data = [totalSubscribers |-> 0, totalLikes |-> 0,
                        totalViews |-> 0, totalVideos |-> 0]

\* u1 asks for the statistics of an empty channel while the store holds
\* videos, subscriptions and video likes of the other user
C6_Witness ==
    /\ last.op = "getChannelStats"
    /\ last.caller = "u1"
    /\ last.status = 200
    /\ EmptyChannel("u1")
    /\ videos # {}
    /\ subscriptions # {}
    /\ \E l \in likes : l.video = 2

-----------------------------------------------------------------------------
(* What the claim about the comment listing speaks of. *)

\* the number a page or limit parameter stands for, and the default
Asked(param, default) ==
    IF param = {} THEN default
    ELSE LET str == CHOOSE x \in param : TRUE
         IN  IF Len(str) = 1 THEN str[1] ELSE 10 * str[1] + str[2]

\* the comments of a video, and the one at a position of the newest-first
\* ordering: as many comments of the video are newer as the position says
CommentsOf(videoId) == {c \in comments : c.video = videoId}

NewestAt(videoId, position) ==
    {c \in CommentsOf(videoId) :
        Cardinality({d \in CommentsOf(videoId) : d.createdAt > c.createdAt})
            = position - 1}

\* what the claim asks of the answer to a listing of an existing video
PageIsRight(r) ==
    LET page  == Asked(r.args.page, 1)
        limit == Asked(r.args.limit, 10)
        N     == Cardinality(CommentsOf(r.args.video))
        rest  == N - (page - 1) * limit
        size  == Min(limit, IF rest > 0 THEN rest ELSE 0)
    IN  /\ r.status = 200
        /\ Len(r.data.docs) = size
        /\ \A k \in 1..size :
              \E c \in NewestAt(r.args.video, (page - 1) * limit + k) :
                  r.data.docs[k]._id = c._id
        /\ r.data.totalDocs = N

\* C7: for an existing video with N comments and every page >= 1 and limit
\* >= 1 (1 and 10 when omitted) getVideoComments answers with the comments
\* at positions (page-1)*limit+1 .. page*limit of the newest-first ordering,
\* min(limit, max(0, N - (page-1)*limit)) of them, and the total count N.
C7_PageOfComments ==
    (last.op = "getVideoComments" /\ FindById(videos, last.args.video) # {})
        => PageIsRight(last)

\* the listing computes the page the claim describes wherever the cast of
\* the video id succeeds (mongoose.Types.ObjectId callable without new)
PageIsRightWhenCastSucceeds ==
    (last.op = "getVideoComments" /\ FindById(videos, last.args.video) # {}
        /\ ~ObjectIdNeedsNew)
        => PageIsRight(last)

-----------------------------------------------------------------------------
(* What the claim about login and logout speaks of. *)

\* the users a login request names by its userName or its email
Identified(r) ==
    {w \in r.before :
        w.userName = r.args.userName \/ w.email = r.args.email}

CookieNames == {c.name : c \in cookies}

\* C10: loginUser for an existing user with the correct password succeeds,
\* sets the accessToken and refreshToken cookies and stores the refresh
\* token on the user; a login with a wrong password fails with 401 and sets
\* no cookie; logoutUser clears both cookies and leaves the user with no
\* stored refresh token.
C10_LoginThenLogout ==
    /\ last.op = "loginUser" =>
          \A w \in Identified(last) :
              IF Identified(last) = {w}
                    /\ BcryptCompare(last.args.password, w.password)
              THEN /\ last.status = 200
                   /\ {"accessToken", "refreshToken"} \subseteq CookieNames
                   /\ \E v \in users : v._id = w._id /\ v.refreshToken # ""
              ELSE (last.args.userName # "" /\ last.args.email # ""
                       /\ \A v \in Identified(last) :
                             ~BcryptCompare(last.args.password, v.password))
                   => (last.status = 401 /\ cookies = {})
    /\ last.op = "logoutUser" =>
          /\ CookieNames \cap {"accessToken", "refreshToken"} = {}
          /\ \A v \in users : v._id = last.caller => v.refreshToken = ""

-----------------------------------------------------------------------------
(* What the claims about registration speak of. *)

UsersAreUnique ==
    \A v, w \in users :
        v # w => /\ v._id # w._id
                 /\ v.userName # w.userName
                 /\ v.email # w.email

\* the registration named a userName or an email that a user stored when
\* it was answered held
NamesStoredUser(r) ==
    UserFindOne(r.before, r.args.userName, r.args.email) # {}

\* C11 (as stated): no two stored users share a userName or an email, and
\* a registration whose userName or email is that of a stored user is
\* answered 409 and stores no user.
C11_DuplicateIs409 ==
    /\ UsersAreUnique
    /\ (last.op = "registerUser" /\ NamesStoredUser(last)) =>
          (last.status = 409 /\ users = last.before)

\* C11 (amended): no two stored users share a userName or an email; a
\* registration whose userName or email is that of a stored user stores no
\* user and is answered 400 when a field is empty, 409 when its lookup found
\* the user, and 500 when the user was stored after its lookup.
C11_DuplicateIsRejected ==
    /\ UsersAreUnique
    /\ (last.op = "registerUser" /\ NamesStoredUser(last)) =>
          /\ users = last.before
          /\ last.status =
                IF SomeFieldEmpty(last.args) THEN 400
                ELSE IF last.args.existed THEN 409
                ELSE IF ~last.args.avatar THEN 400
                ELSE 500

\* two users stored, and a registration that names one of them, raced by
\* no one, answered 409
C11_Witness ==
    /\ Cardinality(users) = 2
    /\ last.op = "registerUser"
    /\ NamesStoredUser(last)
    /\ last.status = 409
    /\ last.err = "UserExists"

UserOps == {"registerUser", "loginUser", "logoutUser"}

\* C12: no response of registerUser, loginUser or logoutUser, success or
\* failure, carries a password: neither the data nor the user object in it
\* has a password field.
C12_NoPasswordReturned ==
    last.op \in UserOps =>
        /\ "password" \notin DOMAIN last.data
        /\ "user" \in DOMAIN last.data =>
              "password" \notin DOMAIN last.data.user

\* a registration succeeded: the user is stored with the hash of the
\* password sent, and the response carries the created user
C12_Witness ==
    /\ last.op = "registerUser"
    /\ last.status = 201
    /\ "userName" \in DOMAIN last.data
    /\ \E w \in users : /\ w._id = last.data._id
                        /\ w.password = BcryptHash(last.args.password)

-----------------------------------------------------------------------------
(* What the claims about reading likes speak of. *)

ReadOps == {"getUserTweets", "getVideoComments"}

\* the request named its target by a well-formed id of a stored entity
ReadableRequest(r) ==
    IF r.op = "getUserTweets" THEN isValidUserId(r.args.userId)
    ELSE isValidObjectId(r.args.video) /\ FindById(videos, r.args.video) # {}

\* C13: a getUserTweets or getVideoComments request without an identity
\* does not fail: it is answered 200 with the list, and every item of the
\* list has isLiked = FALSE, whatever likes are stored.
C13_AnonymousReads ==
    (last.op \in ReadOps /\ last.caller = NoUser /\ ReadableRequest(last)) =>
        /\ last.status = 200
        /\ \A i \in 1..Len(last.data.docs) : ~last.data.docs[i].isLiked

\* C13, for the requests that are answered: no item is reported liked
AnonymousSeesNoLike ==
    (last.op \in ReadOps /\ last.caller = NoUser /\ last.status = 200) =>
        \A i \in 1..Len(last.data.docs) : ~last.data.docs[i].isLiked

-----------------------------------------------------------------------------
(* What the claim about the values of the channel statistics speaks of. *)

VideosOf(u) == {v \in videos : v.owner = u}

\* C14: for an authenticated caller getChannelStats returns the number of
\* subscriptions whose channel is the caller, the number of the caller's
\* videos, the sum of their view counts, and the number of likes whose video
\* is one of them; nothing else is counted.
C14_StatsAreTheCallersOwn ==
    (last.op = "getChannelStats" /\ last.caller \in Users) =>
        LET u == last.caller IN
        /\ last.status = 200
        /\ last.data.totalSubscribers =
              Cardinality({c \in subscriptions : c.channel = u})
        /\ last.data.totalVideos = Cardinality(VideosOf(u))
        /\ last.data.totalViews =
              Sum([v \in VideosOf(u) |-> v.views], VideosOf(u))
        /\ last.data.totalLikes =
              Cardinality({l \in likes :
                              \E v \in VideosOf(u) : l.video = v._id})

\* the caller owns two videos, one of them liked, and is subscribed to,
\* while the store also holds another owner's video with its likes, a
\* subscription to another channel, and likes on a comment and on a tweet
C14_Witness ==
    /\ last.op = "getChannelStats"
    /\ last.caller \in Users
    /\ last.status = 200
    /\ Cardinality(VideosOf(last.caller)) = 2
    /\ last.data.totalLikes >= 1
    /\ last.data.totalViews >= 1
    /\ last.data.totalSubscribers >= 1
    /\ \E c \in subscriptions : c.channel # last.caller
    /\ \E v \in videos : v.owner # last.caller /\ \E l \in likes : l.video = v._id
    /\ \E l \in likes : l.comment # 0
    /\ \E l \in likes : l.tweet # 0

-----------------------------------------------------------------------------
(* What the claim about the target of a like speaks of. *)

TargetsOf(l) == {path \in {"video", "comment", "tweet"} : LikeField(l, path) # 0}

\* C15: every stored Like references exactly one of video, comment and
\* tweet: after any toggles none has two targets and none has no target.
C15_ExactlyOneTarget ==
    \A l \in likes : Cardinality(TargetsOf(l)) = 1

\* likes of all three kinds are stored, each written by its toggle
C15_Witness ==
    /\ \E l \in likes : TargetsOf(l) = {"video"}
    /\ \E l \in likes : TargetsOf(l) = {"comment"}
    /\ \E l \in likes : TargetsOf(l) = {"tweet"}

-----------------------------------------------------------------------------
(* What the claims about deleting a tweet and about its content speak of. *)

\* C16: a deleteTweet that succeeds removes the tweet it names and nothing
\* else: every like, those on the deleted tweet included, every other tweet
\* and every comment is stored unchanged afterwards.
C16_DeleteTweetAlone ==
    [][(last' # last /\ last'.op = "deleteTweet" /\ last'.status = 200) =>
          /\ likes' = likes
          /\ comments' = comments
          /\ tweets' = {t \in tweets : t._id # last'.args.id}
          /\ \E t \in tweets : t._id = last'.args.id /\ t.owner = last'.caller
      ]_vars

\* the owner deleted a stored tweet that is liked: the tweet is gone, its
\* likes and the other tweet are stored
C16_Witness ==
    /\ last.op = "deleteTweet"
    /\ last.status = 200
    /\ \E t \in last.before : t._id = last.args.id /\ t.owner = last.caller
    /\ \A t \in tweets : t._id # last.args.id
    /\ \E l \in likes : l.tweet = last.args.id
    /\ tweets # {}

\* C18: every stored tweet has content; createTweet and updateTweet with
\* empty content are answered 400, and the stored tweets are as before.
C18_ContentIsNeverEmpty ==
    /\ \A t \in tweets : t.content # ""
    /\ (last.op \in {"createTweet", "updateTweet"}
           /\ last.args.content = "") =>
          /\ last.status = 400
          /\ tweets = last.before

\* the owner of a stored tweet asked for its content to be emptied and was
\* refused
C18_Witness ==
    /\ last.op = "updateTweet"
    /\ last.args.content = ""
    /\ \E t \in tweets : t._id = last.args.id /\ t.owner = last.caller
    /\ last.status = 400
    /\ last.err = "ContentRequired"

-----------------------------------------------------------------------------
(* What the claim about the members of a playlist speaks of. *)

MembershipOps == {"addVideoToPlaylist", "removeVideoFromPlaylist"}

-----------------------------------------------------------------------------
(* What the claim about reading a like after a toggle speaks of. *)

\* what getUserTweets, resp. getVideoComments, called by user u shows of the
\* item a toggle named
ViewsOfTarget(r, u) ==
    IF r.op = "toggleTweetLike"
    THEN {TweetView(t, u) : t \in FindById(tweets, r.args.target)}
    ELSE {CommentView(c, u) : c \in FindById(comments, r.args.target)}

\* C19: after a toggleTweetLike or toggleCommentLike of user U reports the
\* item liked, the listing called by U shows it with isLiked = TRUE and a
\* likesCount one above the count before the toggle; after U's next toggle
\* on it the listing shows isLiked = FALSE and the count one less.
C19_ReadSeesToggle ==
    (ToggledAlone(last) /\ last.op # "toggleVideoLike") =>
        \A view \in ViewsOfTarget(last, last.caller) :
            LET was == Cardinality(LikesOn(last.before, last.op,
                                           last.args.target))
                next == /\ ToggledAlone(prev)
                        /\ prev.op = last.op
                        /\ prev.caller = last.caller
                        /\ prev.args.target = last.args.target
                        /\ Flag(prev)
            IN  /\ Flag(last) => (view.isLiked /\ view.likesCount = was + 1)
                /\ next => (~view.isLiked /\ view.likesCount = was - 1)

-----------------------------------------------------------------------------
(* What the claim about reading a playlist speaks of. *)

\* the published videos among the members of the playlist a request named
PublishedMembers(r) ==
    {v \in videos : /\ v.isPublished
                    /\ \E q \in FindById(playlists, r.args.id) :
                          InSeq(v._id, q.videos)}

\* C20: the playlist getPlaylistById returns lists published videos only:
\* its videos are exactly the published members, and totalVideos and
\* totalViews are their number and the sum of their views.
C20_PublishedVideosOnly ==
    (last.op = "getPlaylistById" /\ last.status = 200
        /\ "videos" \in DOMAIN last.data) =>
        /\ {v._id : v \in last.data.videos}
              = {v._id : v \in PublishedMembers(last)}
        /\ last.data.totalVideos = Cardinality(PublishedMembers(last))
        /\ last.data.totalViews =
              Sum([v \in PublishedMembers(last) |-> v.views],
                  PublishedMembers(last))

\* C20, of a playlist whose members are all published
PublishedPlaylistIsListed ==
    (last.op = "getPlaylistById" /\ last.status = 200
        /\ "videos" \in DOMAIN last.data
        /\ \A v \in LookupVideos(CHOOSE q \in playlists :
                                    q._id = last.args.id) : v.isPublished) =>
        {v._id : v \in last.data.videos}
              = {v._id : v \in PublishedMembers(last)}

-----------------------------------------------------------------------------
(* What the claim about the identifiers of a login speaks of. *)

\* C21: loginUser answers 400 "UserName or Email Required" exactly when the
\* request carries neither a userName nor an email; a request that carries
\* one of the two is not rejected by this validation.
C21_OneIdentifierIsEnough ==
    last.op = "loginUser" =>
        ((last.status = 400 /\ last.err = "UserNameOrEmailRequired")
            <=> (last.args.userName = "" /\ last.args.email = ""))

-----------------------------------------------------------------------------
(* What the claim about deleting a comment speaks of. *)

\* C22: after a deleteComment that succeeds the comment is gone and no Like
\* that references it is stored, while the other comments and the likes of
\* other targets are as they were.
C22_DeleteCommentWithLikes ==
    (last.op = "deleteComment" /\ last.status = 200) =>
        /\ comments = {c \in last.before : c._id # last.args.id}
        /\ \A l \in likes : l.comment # last.args.id
        /\ {l \in likes : l.comment # last.args.id}
              = {l \in StoredCommentLikes : l.comment # last.args.id}

\* C22, of what deleteComment does keep: the comment it names is gone and
\* every like is stored as before
DeleteCommentKeepsLikes ==
    /\ likes = StoredCommentLikes
    /\ (last.op = "deleteComment" /\ last.status = 200) =>
          \A c \in comments : c._id # last.args.id

=============================================================================
